---- MODULE Spec2Model ----
(***************************************************************************)
(* A model of btc-indexes.py: five HTTP fetchers, the Mayer Multiple       *)
(* derivation, the signal evaluator, the ANSI terminal and the main loop.  *)
(*                                                                         *)
(* Python values are records [t, n]: t is the Python type and n the        *)
(* number carried ("int", "bool": the value; "float": the value in         *)
(* hundredths; "numstr": a string int() can parse, n its value; "str":     *)
(* any other string, n its length; "list": n its length).  Numbers are     *)
(* non-negative.                                                           *)
(***************************************************************************)
EXTENDS Integers, Sequences, FiniteSets, TLC

VARIABLES pc, price, btc_ath, ma200, mayer, fear_value, fear_label, fees,
          warn_message, lines, screen, row, cursor, exc, interrupted, resp

vars == <<pc, price, btc_ath, ma200, mayer, fear_value, fear_label, fees,
          warn_message, lines, screen, row, cursor, exc, interrupted, resp>>

(* ---------------------------- bounds ----------------------------------- *)
\* largest number carried by an upstream price document
MaxNum == 8
\* longest price series of the market_chart/range document
MaxSeries == 2
\* height of the terminal window
TermRows == 24

(* ------------------------ program constants ---------------------------- *)
MAYER_BUY_THRESHOLD == 1
FEAR_GREED_BUY_THRESHOLD == 25
FEE_TRANSFER_THRESHOLD == 15
\* round(..., 2) keeps hundredths
Hundred == 100
\* print_header prints seven rows
HeaderRows == 7

(* --------------------------- Python values ----------------------------- *)
None == [t |-> "none", n |-> 0]
IntV(k) == [t |-> "int", n |-> k]
FloatV(h) == [t |-> "float", n |-> h]
BoolV(k) == [t |-> "bool", n |-> k]
NumStrV(k) == [t |-> "numstr", n |-> k]
StrV(len) == [t |-> "str", n |-> len]
ListV(len) == [t |-> "list", n |-> len]

\* isinstance(v, (int, float)); bool is a subclass of int
IsNumber(v) == v.t \in {"int", "float", "bool"}
\* isinstance(v, dict)
IsDict(v) == v.t = "dict"
\* v is None
IsNone(v) == v.t = "none"
\* truth value of v, as `if v` and `v and w` test it
Truthy(v) == CASE v.t = "none" -> FALSE
               [] v.t = "numstr" -> TRUE
               [] v.t = "dict" -> TRUE
               [] OTHER -> v.n # 0
\* the value of a number in hundredths
Hundredths(v) == IF v.t = "float" THEN v.n ELSE Hundred * v.n

(* ------------------------- upstream responses --------------------------- *)
\* what requests.get / raise_for_status / resp.json() can end in
NetOutcomes == {"ok", "timeout", "status", "notjson"}
\* a JSON scalar found where a price is expected (None: key missing or null)
PriceValues == {None, BoolV(1), StrV(0), StrV(3), NumStrV(2), ListV(1)}
                 \cup {IntV(k) : k \in 0..MaxNum}
UsdValues == {None, StrV(3), IntV(MaxNum)}
FearNums == {FEAR_GREED_BUY_THRESHOLD - 5, FEAR_GREED_BUY_THRESHOLD,
             FEAR_GREED_BUY_THRESHOLD + 1}
FearValues == {None, StrV(3), ListV(1)} \cup {IntV(k) : k \in FearNums}
                 \cup {NumStrV(FEAR_GREED_BUY_THRESHOLD)}
LabelValues == {None, StrV(4)}
FeeNums == {FEE_TRANSFER_THRESHOLD, FEE_TRANSFER_THRESHOLD + 1}
FeeValues == {None, StrV(3)} \cup {IntV(k) : k \in FeeNums}
SideFeeValues == {None, IntV(FEE_TRANSFER_THRESHOLD + 1)}

\* one element of the "prices" list: a [timestamp, price] pair, a list that
\* is too short, a value that cannot be indexed, a pair whose price is text
Pair(v) == [k |-> "pair", p |-> v]
BadItem(b) == [k |-> b, p |-> 0]
PriceItems == {Pair(v) : v \in 0..MaxNum}
                 \cup {BadItem(b) : b \in {"short", "scalar", "strprice"}}
SeriesOf(len) == UNION {[1..m -> PriceItems] : m \in 0..len}
Failures == NetOutcomes \ {"ok"}

\* The documents a fetcher is tried on: every transport failure, every
\* malformed shape at every nesting level, every value at the leaf.
PriceDoc(net, top, bitcoin, usd) ==
    [net |-> net, top |-> top, bitcoin |-> bitcoin, usd |-> usd]
PriceResponses ==
    {PriceDoc(f, "dict", "dict", IntV(1)) : f \in Failures}
      \cup {PriceDoc("ok", "other", "missing", None)}
      \cup {PriceDoc("ok", "dict", b, None) : b \in {"missing", "other"}}
      \cup {PriceDoc("ok", "dict", "dict", v) : v \in PriceValues}

AthDoc(net, top, market_data, ath, usd) ==
    [net |-> net, top |-> top, market_data |-> market_data, ath |-> ath, usd |-> usd]
AthResponses ==
    {AthDoc(f, "dict", "dict", "dict", IntV(MaxNum)) : f \in Failures}
      \cup {AthDoc("ok", "other", "missing", "missing", None)}
      \cup {AthDoc("ok", "dict", m, "missing", None) : m \in {"missing", "other"}}
      \cup {AthDoc("ok", "dict", "dict", a, None) : a \in {"missing", "other"}}
      \cup {AthDoc("ok", "dict", "dict", "dict", v) : v \in UsdValues}

RangeDoc(net, top, prices, items) ==
    [net |-> net, top |-> top, prices |-> prices, items |-> items]
RangeResponses ==
    {RangeDoc(f, "dict", "list", <<Pair(1)>>) : f \in Failures}
      \cup {RangeDoc("ok", "other", "missing", <<>>)}
      \cup {RangeDoc("ok", "dict", p, <<>>) : p \in {"missing", "other"}}
      \cup {RangeDoc("ok", "dict", "list", s) : s \in SeriesOf(MaxSeries)}

FearDoc(net, top, data, first, value, label) ==
    [net |-> net, top |-> top, data |-> data, first |-> first,
     value |-> value, label |-> label]
FearResponses ==
    {FearDoc(f, "dict", "list", "dict", IntV(FEAR_GREED_BUY_THRESHOLD), StrV(4)) :
        f \in Failures}
      \cup {FearDoc("ok", t, "missing", "missing", None, None) : t \in {"nodata", "other"}}
      \cup {FearDoc("ok", "dict", d, "missing", None, None) : d \in {"empty", "other"}}
      \cup {FearDoc("ok", "dict", "list", "other", None, None)}
      \cup {FearDoc("ok", "dict", "list", "dict", v, l) :
              v \in FearValues, l \in LabelValues}

FeeDoc(net, top, fastestFee, halfHourFee, hourFee) ==
    [net |-> net, top |-> top, fastestFee |-> fastestFee,
     halfHourFee |-> halfHourFee, hourFee |-> hourFee]
FeeResponses ==
    {FeeDoc(f, "dict", IntV(1), IntV(1), IntV(1)) : f \in Failures}
      \cup {FeeDoc("ok", "other", None, None, None)}
      \cup {FeeDoc("ok", "dict", a, b, c) :
              a \in SideFeeValues, b \in FeeValues, c \in SideFeeValues}

\* The documents the main loop is run on: one of each outcome that the loop
\* tells apart (absent, wrong type, a number on each side of a threshold).
LoopPriceResponses ==
    {PriceDoc("timeout", "dict", "dict", IntV(1))}
      \cup {PriceDoc("ok", "dict", "dict", v) : v \in {StrV(3), IntV(0), IntV(1), IntV(2)}}
LoopAthResponses ==
    {AthDoc("status", "dict", "dict", "dict", IntV(3)),
     AthDoc("ok", "dict", "dict", "dict", StrV(3)),
     AthDoc("ok", "dict", "dict", "dict", IntV(3))}
LoopRangeResponses ==
    {RangeDoc("ok", "dict", "list", <<>>),
     RangeDoc("ok", "dict", "list", <<Pair(0)>>),
     RangeDoc("ok", "dict", "list", <<Pair(2), Pair(3)>>)}
LoopFearResponses ==
    {FearDoc("notjson", "dict", "list", "dict", IntV(FEAR_GREED_BUY_THRESHOLD), StrV(4)),
     FearDoc("ok", "dict", "list", "dict", StrV(3), StrV(4))}
      \cup {FearDoc("ok", "dict", "list", "dict", NumStrV(k), StrV(4)) :
              k \in {FEAR_GREED_BUY_THRESHOLD, FEAR_GREED_BUY_THRESHOLD + 1}}
LoopFeeResponses ==
    {FeeDoc("timeout", "dict", IntV(1), IntV(1), IntV(1)),
     FeeDoc("ok", "dict", IntV(FEE_TRANSFER_THRESHOLD + 1),
            IntV(FEE_TRANSFER_THRESHOLD), None)}
      \cup {FeeDoc("ok", "dict", IntV(FEE_TRANSFER_THRESHOLD + 1), IntV(k),
                   IntV(FEE_TRANSFER_THRESHOLD + 1)) :
              k \in {FEE_TRANSFER_THRESHOLD, FEE_TRANSFER_THRESHOLD + 1}}
NoResp == [net |-> "none"]

(* ------------------------------ fetchers -------------------------------- *)
\* Each fetcher is `try: ... except ...: log finally: return local`: the try
\* body ends normally or in an exception, and the finally clause returns the
\* local's current value whichever it was.

get_btc_price(r) ==
    LET body ==
          IF r.net # "ok" THEN [raised |-> "RequestException", price |-> None]
          ELSE IF r.top # "dict" THEN [raised |-> "ValueError", price |-> None]
          ELSE IF r.bitcoin # "dict" THEN [raised |-> "ValueError", price |-> None]
          ELSE IF ~IsNumber(r.usd) THEN [raised |-> "ValueError", price |-> r.usd]
          ELSE [raised |-> "none", price |-> r.usd]
    IN body.price

get_btc_ath(r) ==
    LET body ==
          IF r.net # "ok" THEN [raised |-> "RequestException", ath_usd |-> None]
          ELSE IF r.top # "dict" THEN [raised |-> "ValueError", ath_usd |-> None]
          ELSE IF r.market_data # "dict" THEN [raised |-> "ValueError", ath_usd |-> None]
          ELSE IF r.ath # "dict" THEN [raised |-> "ValueError", ath_usd |-> None]
          ELSE IF ~IsNumber(r.usd) THEN [raised |-> "ValueError", ath_usd |-> r.usd]
          ELSE [raised |-> "none", ath_usd |-> r.usd]
    IN body.ath_usd

RECURSIVE SumPrices(_)
SumPrices(items) ==
    IF items = <<>> THEN 0 ELSE Head(items).p + SumPrices(Tail(items))

get_200_day_ma(r) ==
    LET items == r.items
        body ==
          IF r.net # "ok" THEN [raised |-> "RequestException", ma200 |-> None]
          ELSE IF r.top # "dict" \/ r.prices = "missing"
            THEN [raised |-> "ValueError", ma200 |-> None]
          ELSE IF r.prices # "list" \/ items = <<>>
            THEN [raised |-> "ValueError", ma200 |-> None]
          ELSE IF \E i \in DOMAIN items : items[i].k = "short"
            THEN [raised |-> "IndexError", ma200 |-> None]
          ELSE IF \E i \in DOMAIN items : items[i].k \in {"scalar", "strprice"}
            THEN [raised |-> "TypeError", ma200 |-> None]
          ELSE [raised |-> "none",
                ma200 |-> IntV(SumPrices(items) \div Len(items))]
    IN body.ma200

\* int(value_raw)
int(v) == CASE v.t \in {"int", "bool", "numstr"} -> [raised |-> "none", value |-> IntV(v.n)]
            [] v.t = "float" -> [raised |-> "none", value |-> IntV(v.n \div Hundred)]
            [] v.t = "str" -> [raised |-> "ValueError", value |-> None]
            [] OTHER -> [raised |-> "TypeError", value |-> None]

get_fear_and_greed(r) ==
    LET body ==
          IF r.net # "ok"
            THEN [raised |-> "RequestException", value |-> None, label |-> None]
          ELSE IF r.top # "dict"
            THEN [raised |-> "ValueError", value |-> None, label |-> None]
          ELSE IF r.data # "list"
            THEN [raised |-> "ValueError", value |-> None, label |-> None]
          ELSE IF r.first # "dict"
            THEN [raised |-> "ValueError", value |-> None, label |-> None]
          ELSE IF IsNone(r.value) \/ IsNone(r.label)
            THEN [raised |-> "ValueError", value |-> None, label |-> r.label]
          ELSE [raised |-> int(r.value).raised, value |-> int(r.value).value,
                label |-> r.label]
    IN <<body.value, body.label>>

NoFees == [t |-> "dict", fastestFee |-> None, halfHourFee |-> None, hourFee |-> None]

\* one pass of the loop over new_fees: a number is kept, anything else is
\* logged and stays None
FeeField(v) == IF IsNumber(v) THEN v ELSE None

get_transfer_fees(r) ==
    LET body ==
          IF r.net # "ok" THEN [raised |-> "RequestException", new_fees |-> NoFees]
          ELSE IF r.top # "dict" THEN [raised |-> "ValueError", new_fees |-> NoFees]
          ELSE [raised |-> "none",
                new_fees |-> [t |-> "dict",
                              fastestFee |-> FeeField(r.fastestFee),
                              halfHourFee |-> FeeField(r.halfHourFee),
                              hourFee |-> FeeField(r.hourFee)]]
    IN body.new_fees

(* ----------------------------- derivation ------------------------------- *)
\* round(num / den, 2) in hundredths: the quotient is rounded to the nearest
\* hundredth, a tie goes to the even one.  (A tie num/den = (2k+1)/200 is an
\* exact binary fraction unless den is a multiple of 40, which the bounds
\* keep out, so Python's round sees the tie exactly.)
RoundHalfEven(num, den) ==
    LET q == (Hundred * num) \div den
        rem == (Hundred * num) % den
    IN IF 2 * rem < den THEN q
       ELSE IF 2 * rem > den THEN q + 1
       ELSE IF q % 2 = 0 THEN q ELSE q + 1

\* round(price / moving_average, 2) if price and moving_average else None
calculate_mayer_index(p, moving_average) ==
    IF Truthy(p) /\ Truthy(moving_average)
      THEN IF IsNumber(p) /\ IsNumber(moving_average)
             THEN [raised |-> "none",
                   value |-> FloatV(RoundHalfEven(Hundredths(p),
                                                  Hundredths(moving_average)))]
             ELSE [raised |-> "TypeError", value |-> None]
      ELSE [raised |-> "none", value |-> None]

\* "--" if value is None else value
check_print(value) == IF IsNone(value) THEN StrV(2) ELSE value

(* --------------------------- signal evaluator --------------------------- *)
BUY_LINE == "BUY SIGNAL: Conditions favorable for lump buy!"
TRANSFER_LINE == "TRANSFER SIGNAL: Conditions favorable for transfer on-chain!"
MISSING_LINE == "Failed to fetch some data."
NO_SIGNAL_LINE == "No specific signals at this time."

BuySignal_le(m, fv) ==
    /\ IsNumber(m) /\ Hundredths(m) <= Hundred * MAYER_BUY_THRESHOLD
    /\ IsNumber(fv) /\ Hundredths(fv) <= Hundred * FEAR_GREED_BUY_THRESHOLD

\* Mayer < 1.0 and Fear & Greed <= 25
BuySignal(m, fv) ==
    /\ IsNumber(m) /\ Hundredths(m) < Hundred * MAYER_BUY_THRESHOLD
    /\ IsNumber(fv) /\ Hundredths(fv) <= Hundred * FEAR_GREED_BUY_THRESHOLD

\* Fee <= 15 sat/vB
TransferSignal(half_hour_fee) ==
    /\ IsNumber(half_hour_fee)
    /\ Hundredths(half_hour_fee) <= Hundred * FEE_TRANSFER_THRESHOLD

\* message += "\n<line>"; lines += 1
Append_line(s, line) ==
    [message |-> Append(s.message, line), lines |-> s.lines + 1]

Compose_warning_first(buy, transfer, missing_data) ==
    LET s0 == [message |-> <<>>, lines |-> 0]
        s1 == IF missing_data THEN Append_line(s0, MISSING_LINE) ELSE s0
        s2 == IF buy THEN Append_line(s1, BUY_LINE) ELSE s1
        s3 == IF transfer THEN Append_line(s2, TRANSFER_LINE) ELSE s2
    IN IF s3.message = <<>> THEN Append_line(s3, NO_SIGNAL_LINE) ELSE s3

\* the four `if` blocks of check_indexes, in the order of the code
Compose(buy, transfer, missing_data) ==
    LET s0 == [message |-> <<>>, lines |-> 0]
        s1 == IF buy THEN Append_line(s0, BUY_LINE) ELSE s0
        s2 == IF transfer THEN Append_line(s1, TRANSFER_LINE) ELSE s1
        s3 == IF missing_data THEN Append_line(s2, MISSING_LINE) ELSE s2
    IN IF s3.message = <<>> THEN Append_line(s3, NO_SIGNAL_LINE) ELSE s3

check_indexes(p, ath, ma, m, fv, f) ==
    LET missing_data == \/ IsNone(p) \/ IsNone(ath) \/ IsNone(ma)
                        \/ IsNone(m) \/ IsNone(fv) \/ IsNone(f)
        half_hour_fee == IF IsDict(f) THEN f.halfHourFee ELSE None
    IN Compose(BuySignal(m, fv), TransferSignal(half_hour_fee), missing_data)

(* ------------------------------ terminal -------------------------------- *)
\* A terminal is [screen, row]: the text of each row and the cursor's row.
Rows == 0..(TermRows - 1)
Blank == [text |-> "", vals |-> <<>>]
Text(s) == [text |-> s, vals |-> <<>>]
BlankScreen == [r \in Rows |-> Blank]

\* "\n": the cursor goes down a row; on the last row the screen scrolls
NewLine(t) ==
    IF t.row = TermRows - 1
      THEN [screen |-> [r \in Rows |-> IF r < TermRows - 1
                                         THEN t.screen[r + 1] ELSE Blank],
            row |-> t.row]
      ELSE [screen |-> t.screen, row |-> t.row + 1]

\* text written on the cursor's row
WriteRow(t, line) == [screen |-> [t.screen EXCEPT ![t.row] = line], row |-> t.row]

\* print(line): the text and a newline
print_line(t, line) == NewLine(WriteRow(t, line))

\* "\033[F" "\033[K": cursor up one row (it stops at the top), row erased
CursorUpErase(t) ==
    LET r == IF t.row > 0 THEN t.row - 1 ELSE 0
    IN [screen |-> [t.screen EXCEPT ![r] = Blank], row |-> r]

RECURSIVE clear_terminal_lines(_, _)
clear_terminal_lines(t, n) ==
    IF n <= 0 THEN t ELSE clear_terminal_lines(CursorUpErase(t), n - 1)

\* the pieces "\n<line>" of the message, one after the other
RECURSIVE WritePieces(_, _)
WritePieces(t, message) ==
    IF message = <<>> THEN t
    ELSE WritePieces(WriteRow(NewLine(t), Text(Head(message))), Tail(message))

\* print(warn_message)
print_message(t, message) == NewLine(WritePieces(t, message))

\* the six banner rows and the empty row of print_header
RECURSIVE print_rows(_, _, _)
print_rows(t, line, n) ==
    IF n = 0 THEN t ELSE print_rows(print_line(t, line), line, n - 1)

print_header(t) == print_line(print_rows(t, Text("$BTCDASH"), HeaderRows - 1), Blank)

\* the six metric rows of the main loop
print_metrics(t, p, ath, ma, m, fv, fl, f) ==
    LET t1 == print_line(t, [text |-> "BTC Price", vals |-> <<check_print(p)>>])
        t2 == print_line(t1, [text |-> "BTC ATH", vals |-> <<check_print(ath)>>])
        t3 == print_line(t2, [text |-> "200-day MA", vals |-> <<check_print(ma)>>])
        t4 == print_line(t3, [text |-> "Mayer Multiple", vals |-> <<check_print(m)>>])
        t5 == print_line(t4, [text |-> "Fear & Greed",
                              vals |-> <<check_print(fv), check_print(fl)>>])
    IN print_line(t5, [text |-> "Fees (sat/vB)",
                       vals |-> <<check_print(f.fastestFee),
                                  check_print(f.halfHourFee),
                                  check_print(f.hourFee)>>])

EraseCount_six(n) == n + 6

\* clear_terminal_lines(lines + 7)
EraseCount(n) == n + 7

(* ------------------------------ main loop ------------------------------- *)
\* pc is the statement of __main__ about to run (or running); exc is the
\* exception in flight; interrupted records that the operator has sent an
\* interrupt; resp is the upstream response a fetcher under test was given.
Term == [screen |-> screen, row |-> row]
SetTerm(t) == screen' = t.screen /\ row' = t.row

FetcherPcs == {"get_btc_price", "get_btc_ath", "get_200_day_ma",
               "get_fear_and_greed", "get_transfer_fees"}
LoopPcs == FetcherPcs \cup {"print_status", "calculate_mayer_index", "render",
                            "sleep", "clear_block"}
HandlerPcs == {"except_kbd", "except_exc"}

Init ==
    /\ pc = "clear_all"
    /\ price = None /\ btc_ath = None /\ ma200 = None /\ mayer = None
    /\ fear_value = None /\ fear_label = None /\ fees = NoFees
    /\ warn_message = <<>> /\ lines = 0
    /\ screen = BlankScreen /\ row = 0 /\ cursor = "shown"
    /\ exc = "none" /\ interrupted = FALSE /\ resp = NoResp

\* clear_all(hide_cursor): erase the screen, cursor home, cursor hidden or shown
clear_all(hide_cursor) ==
    /\ screen' = BlankScreen
    /\ row' = 0
    /\ cursor' = IF hide_cursor THEN "hidden" ELSE "shown"

Startup ==
    /\ pc = "clear_all"
    /\ clear_all(TRUE)
    /\ pc' = "print_header"
    /\ UNCHANGED <<price, btc_ath, ma200, mayer, fear_value, fear_label, fees,
                   warn_message, lines, exc, interrupted, resp>>

PrintHeader ==
    /\ pc = "print_header"
    /\ SetTerm(print_header(Term))
    /\ pc' = "print_status"
    /\ UNCHANGED <<price, btc_ath, ma200, mayer, fear_value, fear_label, fees,
                   warn_message, lines, cursor, exc, interrupted, resp>>

\* print("Fetching data...")
PrintStatus ==
    /\ pc = "print_status"
    /\ SetTerm(print_line(Term, Text("Fetching data...")))
    /\ pc' = "get_btc_price"
    /\ UNCHANGED <<price, btc_ath, ma200, mayer, fear_value, fear_label, fees,
                   warn_message, lines, cursor, exc, interrupted, resp>>

FetchPrice ==
    /\ pc = "get_btc_price"
    /\ \E r \in LoopPriceResponses : price' = get_btc_price(r)
    /\ pc' = "get_btc_ath"
    /\ UNCHANGED <<btc_ath, ma200, mayer, fear_value, fear_label, fees,
                   warn_message, lines, screen, row, cursor, exc, interrupted, resp>>

FetchAth ==
    /\ pc = "get_btc_ath"
    /\ \E r \in LoopAthResponses : btc_ath' = get_btc_ath(r)
    /\ pc' = "get_200_day_ma"
    /\ UNCHANGED <<price, ma200, mayer, fear_value, fear_label, fees,
                   warn_message, lines, screen, row, cursor, exc, interrupted, resp>>

FetchMa ==
    /\ pc = "get_200_day_ma"
    /\ \E r \in LoopRangeResponses : ma200' = get_200_day_ma(r)
    /\ pc' = "calculate_mayer_index"
    /\ UNCHANGED <<price, btc_ath, mayer, fear_value, fear_label, fees,
                   warn_message, lines, screen, row, cursor, exc, interrupted, resp>>

\* mayer = calculate_mayer_index(price, ma200); an exception it raises leaves
\* the loop for the `except Exception` clause
Derive ==
    /\ pc = "calculate_mayer_index"
    /\ LET res == calculate_mayer_index(price, ma200)
       IN IF res.raised = "none"
            THEN mayer' = res.value /\ pc' = "get_fear_and_greed" /\ exc' = exc
            ELSE mayer' = mayer /\ pc' = "except_exc" /\ exc' = res.raised
    /\ UNCHANGED <<price, btc_ath, ma200, fear_value, fear_label, fees,
                   warn_message, lines, screen, row, cursor, interrupted, resp>>

FetchFearGreed ==
    /\ pc = "get_fear_and_greed"
    /\ \E r \in LoopFearResponses :
          /\ fear_value' = get_fear_and_greed(r)[1]
          /\ fear_label' = get_fear_and_greed(r)[2]
    /\ pc' = "get_transfer_fees"
    /\ UNCHANGED <<price, btc_ath, ma200, mayer, fees,
                   warn_message, lines, screen, row, cursor, exc, interrupted, resp>>

FetchFees ==
    /\ pc = "get_transfer_fees"
    /\ \E r \in LoopFeeResponses : fees' = get_transfer_fees(r)
    /\ pc' = "render"
    /\ UNCHANGED <<price, btc_ath, ma200, mayer, fear_value, fear_label,
                   warn_message, lines, screen, row, cursor, exc, interrupted, resp>>

\* clear_terminal_lines(1), the six metric rows, check_indexes, print(warn_message)
Render ==
    /\ pc = "render"
    /\ LET res == check_indexes(price, btc_ath, ma200, mayer, fear_value, fees)
           t1 == clear_terminal_lines(Term, 1)
           t2 == print_metrics(t1, price, btc_ath, ma200, mayer,
                               fear_value, fear_label, fees)
       IN /\ warn_message' = res.message
          /\ lines' = res.lines
          /\ SetTerm(print_message(t2, res.message))
    /\ pc' = "sleep"
    /\ UNCHANGED <<price, btc_ath, ma200, mayer, fear_value, fear_label, fees,
                   cursor, exc, interrupted, resp>>

\* time.sleep(1800) runs to its end
Sleep ==
    /\ pc = "sleep"
    /\ pc' = "clear_block"
    /\ UNCHANGED <<price, btc_ath, ma200, mayer, fear_value, fear_label, fees,
                   warn_message, lines, screen, row, cursor, exc, interrupted, resp>>

ClearBlock ==
    /\ pc = "clear_block"
    /\ SetTerm(clear_terminal_lines(Term, EraseCount(lines)))
    /\ pc' = "print_status"
    /\ UNCHANGED <<price, btc_ath, ma200, mayer, fear_value, fear_label, fees,
                   warn_message, lines, cursor, exc, interrupted, resp>>

\* KeyboardInterrupt while clear_all or print_header runs: no try encloses
\* them, the interpreter prints the traceback and exits
InterruptStartup ==
    /\ pc \in {"clear_all", "print_header"}
    /\ pc' = "done"
    /\ exc' = "KeyboardInterrupt"
    /\ interrupted' = TRUE
    /\ UNCHANGED <<price, btc_ath, ma200, mayer, fear_value, fear_label, fees,
                   warn_message, lines, screen, row, cursor, resp>>

\* KeyboardInterrupt in a statement of the loop, outside a fetcher's try
InterruptLoop ==
    /\ pc \in LoopPcs
    /\ pc' = "except_kbd"
    /\ exc' = "KeyboardInterrupt"
    /\ interrupted' = TRUE
    /\ UNCHANGED <<price, btc_ath, ma200, mayer, fear_value, fear_label, fees,
                   warn_message, lines, screen, row, cursor, resp>>

\* KeyboardInterrupt inside a fetcher's try (the request or the parsing
\* before the local is assigned): `finally: return local` discards it and
\* the fetcher returns the local's initial value
InterruptFetcher ==
    /\ pc \in FetcherPcs
    /\ interrupted' = TRUE
    /\ CASE pc = "get_btc_price" ->
              /\ price' = None /\ pc' = "get_btc_ath"
              /\ UNCHANGED <<btc_ath, ma200, fear_value, fear_label, fees>>
         [] pc = "get_btc_ath" ->
              /\ btc_ath' = None /\ pc' = "get_200_day_ma"
              /\ UNCHANGED <<price, ma200, fear_value, fear_label, fees>>
         [] pc = "get_200_day_ma" ->
              /\ ma200' = None /\ pc' = "calculate_mayer_index"
              /\ UNCHANGED <<price, btc_ath, fear_value, fear_label, fees>>
         [] pc = "get_fear_and_greed" ->
              /\ fear_value' = None /\ fear_label' = None
              /\ pc' = "get_transfer_fees"
              /\ UNCHANGED <<price, btc_ath, ma200, fees>>
         [] pc = "get_transfer_fees" ->
              /\ fees' = NoFees /\ pc' = "render"
              /\ UNCHANGED <<price, btc_ath, ma200, fear_value, fear_label>>
    /\ UNCHANGED <<mayer, warn_message, lines, screen, row, cursor, exc, resp>>

\* except KeyboardInterrupt: print("\nExiting script...\n")
HandleInterrupt ==
    /\ pc = "except_kbd"
    /\ SetTerm(print_line(NewLine(print_line(NewLine(Term),
                                             Text("Exiting script..."))), Blank))
    /\ pc' = "finally"
    /\ exc' = "none"
    /\ UNCHANGED <<price, btc_ath, ma200, mayer, fear_value, fear_label, fees,
                   warn_message, lines, cursor, interrupted, resp>>

\* except Exception as e: print("\nSomething unexpected happened: ", e)
HandleException ==
    /\ pc = "except_exc"
    /\ SetTerm(print_line(NewLine(Term), Text("Something unexpected happened: ")))
    /\ pc' = "finally"
    /\ exc' = "none"
    /\ UNCHANGED <<price, btc_ath, ma200, mayer, fear_value, fear_label, fees,
                   warn_message, lines, cursor, interrupted, resp>>

\* KeyboardInterrupt inside an except clause: the finally clause still runs
InterruptHandler ==
    /\ pc \in HandlerPcs
    /\ pc' = "finally"
    /\ exc' = "KeyboardInterrupt"
    /\ interrupted' = TRUE
    /\ UNCHANGED <<price, btc_ath, ma200, mayer, fear_value, fear_label, fees,
                   warn_message, lines, screen, row, cursor, resp>>

\* finally: clear_all(hide_cursor=False); then the process ends
Finally ==
    /\ pc = "finally"
    /\ clear_all(FALSE)
    /\ pc' = "done"
    /\ UNCHANGED <<price, btc_ath, ma200, mayer, fear_value, fear_label, fees,
                   warn_message, lines, exc, interrupted, resp>>

\* KeyboardInterrupt inside the finally clause, before clear_all has written
InterruptFinally ==
    /\ pc = "finally"
    /\ pc' = "done"
    /\ exc' = "KeyboardInterrupt"
    /\ interrupted' = TRUE
    /\ UNCHANGED <<price, btc_ath, ma200, mayer, fear_value, fear_label, fees,
                   warn_message, lines, screen, row, cursor, resp>>

Next ==
    \/ Startup \/ PrintHeader \/ PrintStatus
    \/ FetchPrice \/ FetchAth \/ FetchMa \/ Derive \/ FetchFearGreed \/ FetchFees
    \/ Render \/ Sleep \/ ClearBlock
    \/ InterruptStartup \/ InterruptLoop \/ InterruptFetcher
    \/ HandleInterrupt \/ HandleException \/ InterruptHandler
    \/ Finally \/ InterruptFinally

Spec == Init /\ [][Next]_vars

(* ------------------- the functions taken one at a time ------------------ *)
\* Each function is called on every input of a bounded set; the input and
\* the result are kept in the variables of the same names as in __main__.
MayerArgs == {None} \cup {IntV(k) : k \in 0..MaxNum} \cup {IntV(50), IntV(100)}
CheckPrices == {None, IntV(1)}
CheckMayers == {None, IntV(1), FloatV(80), FloatV(99), FloatV(100), FloatV(120)}
CheckFears == {None} \cup {IntV(k) : k \in FearNums}
CheckFees == {None, NoFees}
               \cup {[t |-> "dict", fastestFee |-> None, halfHourFee |-> IntV(k),
                      hourFee |-> None] : k \in {10, 15, 16, 20}}

InitUnit ==
    /\ pc = "call"
    /\ price = None /\ btc_ath = None /\ ma200 = None /\ mayer = None
    /\ fear_value = None /\ fear_label = None /\ fees = NoFees
    /\ warn_message = <<>> /\ lines = 0
    /\ screen = BlankScreen /\ row = 0 /\ cursor = "shown"
    /\ exc = "none" /\ interrupted = FALSE /\ resp = NoResp

Call_get_btc_price ==
    /\ pc = "call"
    /\ \E r \in PriceResponses : resp' = r /\ price' = get_btc_price(r)
    /\ pc' = "get_btc_price"
    /\ UNCHANGED <<btc_ath, ma200, mayer, fear_value, fear_label, fees,
                   warn_message, lines, screen, row, cursor, exc, interrupted>>

Call_get_btc_ath ==
    /\ pc = "call"
    /\ \E r \in AthResponses : resp' = r /\ btc_ath' = get_btc_ath(r)
    /\ pc' = "get_btc_ath"
    /\ UNCHANGED <<price, ma200, mayer, fear_value, fear_label, fees,
                   warn_message, lines, screen, row, cursor, exc, interrupted>>

Call_get_200_day_ma ==
    /\ pc = "call"
    /\ \E r \in RangeResponses : resp' = r /\ ma200' = get_200_day_ma(r)
    /\ pc' = "get_200_day_ma"
    /\ UNCHANGED <<price, btc_ath, mayer, fear_value, fear_label, fees,
                   warn_message, lines, screen, row, cursor, exc, interrupted>>

Call_get_fear_and_greed ==
    /\ pc = "call"
    /\ \E r \in FearResponses :
          /\ resp' = r
          /\ fear_value' = get_fear_and_greed(r)[1]
          /\ fear_label' = get_fear_and_greed(r)[2]
    /\ pc' = "get_fear_and_greed"
    /\ UNCHANGED <<price, btc_ath, ma200, mayer, fees,
                   warn_message, lines, screen, row, cursor, exc, interrupted>>

Call_get_transfer_fees ==
    /\ pc = "call"
    /\ \E r \in FeeResponses : resp' = r /\ fees' = get_transfer_fees(r)
    /\ pc' = "get_transfer_fees"
    /\ UNCHANGED <<price, btc_ath, ma200, mayer, fear_value, fear_label,
                   warn_message, lines, screen, row, cursor, exc, interrupted>>

Call_calculate_mayer_index ==
    /\ pc = "call"
    /\ \E p \in MayerArgs, m \in MayerArgs :
          /\ price' = p /\ ma200' = m
          /\ mayer' = calculate_mayer_index(p, m).value
          /\ exc' = calculate_mayer_index(p, m).raised
    /\ pc' = "calculate_mayer_index"
    /\ UNCHANGED <<btc_ath, fear_value, fear_label, fees,
                   warn_message, lines, screen, row, cursor, interrupted, resp>>

Call_check_indexes ==
    /\ pc = "call"
    /\ \E p \in CheckPrices, ath \in CheckPrices, ma \in CheckPrices,
          m \in CheckMayers, fv \in CheckFears, f \in CheckFees :
          /\ price' = p /\ btc_ath' = ath /\ ma200' = ma /\ mayer' = m
          /\ fear_value' = fv /\ fees' = f
          /\ warn_message' = check_indexes(p, ath, ma, m, fv, f).message
          /\ lines' = check_indexes(p, ath, ma, m, fv, f).lines
    /\ pc' = "check_indexes"
    /\ UNCHANGED <<fear_label, screen, row, cursor, exc, interrupted, resp>>

NextUnit ==
    \/ Call_get_btc_price \/ Call_get_btc_ath \/ Call_get_200_day_ma
    \/ Call_get_fear_and_greed \/ Call_get_transfer_fees
    \/ Call_calculate_mayer_index \/ Call_check_indexes

SpecUnit == InitUnit /\ [][NextUnit]_vars

(* ------------------------------ properties ------------------------------ *)
HasLine(message, line) == \E i \in DOMAIN message : message[i] = line
Before(message, a, b) ==
    \A i, j \in DOMAIN message : message[i] = a /\ message[j] = b => i < j
AllPresent ==
    /\ ~IsNone(price) /\ ~IsNone(btc_ath) /\ ~IsNone(ma200)
    /\ ~IsNone(mayer) /\ ~IsNone(fear_value)
ShuttingDown == pc \in {"except_kbd", "except_exc", "finally", "done"}

\* C1: a single-valued fetcher returns the extracted number when the
\* response is well-formed (transport ok, every level an object, the leaf a
\* value Python takes for an int or a float, the series non-empty pairs) and
\* None for any other response.
C1_NumberOrAbsent ==
    /\ pc = "get_btc_price" =>
         price = IF /\ resp.net = "ok" /\ resp.top = "dict"
                    /\ resp.bitcoin = "dict" /\ resp.usd.t \in {"int", "float", "bool"}
                   THEN resp.usd ELSE None
    /\ pc = "get_btc_ath" =>
         btc_ath = IF /\ resp.net = "ok" /\ resp.top = "dict"
                      /\ resp.market_data = "dict" /\ resp.ath = "dict"
                      /\ resp.usd.t \in {"int", "float", "bool"}
                     THEN resp.usd ELSE None
    /\ pc = "get_200_day_ma" =>
         ma200 = IF /\ resp.net = "ok" /\ resp.top = "dict"
                    /\ resp.prices = "list" /\ resp.items # <<>>
                    /\ \A i \in DOMAIN resp.items : resp.items[i].k = "pair"
                   THEN IntV(SumPrices(resp.items) \div Len(resp.items))
                   ELSE None

\* C2: once an interrupt has been delivered no further step of the loop
\* runs: the program is in the interrupt handler, the cleanup, or has ended.
C2_InterruptBreaksLoop ==
    interrupted => pc \in {"except_kbd", "finally", "done"}

\* C3: no terminated state has the cursor hidden.
C3_CursorShownAtExit == pc = "done" => cursor = "shown"

C5_OnlyInterruptEndsLoop == ShuttingDown => interrupted

\* C6: the Mayer Multiple is absent exactly when the price is absent, the
\* moving average is absent or the moving average is zero; otherwise it is
\* price / moving_average to the nearest hundredth.
C6_MayerRoundedUnlessAbsent ==
    pc = "calculate_mayer_index" =>
      /\ exc = "none"
      /\ IF IsNone(price) \/ IsNone(ma200) \/ ma200.n = 0
           THEN mayer = None
           ELSE LET err == Hundred * price.n - mayer.n * ma200.n
                IN /\ mayer.t = "float"
                   /\ 2 * err <= ma200.n /\ 2 * (0 - err) <= ma200.n

\* C7: get_fear_and_greed returns an integer with its label, or nothing at all.
C7_FearGreedWholeOrAbsent ==
    pc = "get_fear_and_greed" =>
      \/ fear_value.t = "int" /\ ~IsNone(fear_label)
      \/ IsNone(fear_value) /\ IsNone(fear_label)

\* C8: the data-quality warning is shown exactly when one of the six
\* evaluator inputs is absent (the fee data being absent when the fee fetch
\* delivered no field), and it suppresses neither signal line.
C8_WarningIffInputAbsent ==
    pc = "sleep" =>
      /\ HasLine(warn_message, MISSING_LINE) <=> (~AllPresent \/ fees = NoFees)
      /\ (mayer.t = "float" /\ mayer.n < 100 /\ fear_value.t = "int"
            /\ fear_value.n <= 25) => HasLine(warn_message, BUY_LINE)
      /\ (fees.halfHourFee.t = "int" /\ fees.halfHourFee.n <= 15)
            => HasLine(warn_message, TRANSFER_LINE)

\* C9: check_indexes gives the buy-signal line exactly when the Mayer
\* Multiple is a number below 1.0 and the fear value is a number of at most 25.
C9_BuyLineIff ==
    pc = "check_indexes" =>
      (HasLine(warn_message, BUY_LINE) <=>
         /\ mayer.t \in {"int", "float"}
         /\ (IF mayer.t = "float" THEN mayer.n ELSE 100 * mayer.n) < 100
         /\ fear_value.t = "int" /\ fear_value.n <= 25)
C9_Witness ==
    /\ pc = "check_indexes" /\ mayer = FloatV(80) /\ fear_value = IntV(20)
    /\ HasLine(warn_message, BUY_LINE)

\* C10 as written: the warning comes first, then the buy line, then the
\* transfer line.
C10_WarningFirst ==
    pc = "check_indexes" =>
      /\ Before(warn_message, MISSING_LINE, BUY_LINE)
      /\ Before(warn_message, MISSING_LINE, TRANSFER_LINE)
      /\ Before(warn_message, BUY_LINE, TRANSFER_LINE)

\* C10 amended: the buy line comes first, then the transfer line, and the
\* warning comes last.
C10_WarningLast ==
    pc = "check_indexes" =>
      /\ Before(warn_message, BUY_LINE, TRANSFER_LINE)
      /\ Before(warn_message, BUY_LINE, MISSING_LINE)
      /\ Before(warn_message, TRANSFER_LINE, MISSING_LINE)
C10_Witness ==
    /\ pc = "check_indexes"
    /\ warn_message = <<BUY_LINE, TRANSFER_LINE, MISSING_LINE>>

====
